---- MODULE Spec2Model ----
(***************************************************************************)
(* Request-scoped credential context of cuga                               *)
(* (src/src/cuga/backend/llm/credential_context.py).                       *)
(*                                                                         *)
(* The module keeps one ContextVar, _request_credentials, whose default is *)
(* None.  ContextVar.set writes the entry of the contextvars.Context in    *)
(* which the calling code runs and ContextVar.get reads it, giving the     *)
(* default when that Context has no entry.  Which Context a logical flow   *)
(* (the work that serves one request) runs in is decided by the host.      *)
(*                                                                         *)
(* Python's Optional[T] is modelled as a sequence of length at most one:   *)
(* None is <<>> and a value v is <<v>>.                                    *)
(***************************************************************************)
EXTENDS Integers, Sequences, FiniteSets, TLC

\* Number of concurrently executing flows of the model.
NumFlows == 2

Flows == 1 .. NumFlows

None == <<>>

Some(v) == <<v>>

\* The threads of the host: the smallest pool in which a flow can continue
\* on another thread than the one it left.
Threads == {1, 2}

\* The flows that run in the sequential specification SpecSeq.
SeqFlows == {1}

(***************************************************************************)
(* Inputs.                                                                 *)
(***************************************************************************)

\* API keys of the tenants; flow f of the concurrent specification serves
\* tenant f.
TenantKeys == <<"a", "b", "c", "d">>

TenantKey(f) == TenantKeys[((f - 1) % Len(TenantKeys)) + 1]

\* Arguments of set_request_credentials drawn by flow f in Spec.
TenantArgs(f) ==
    [api_key : {None, Some(TenantKey(f))},
     provider : {None, Some("openai")},
     model : {None},
     base_url : {None},
     user_id : {None},
     organization_id : {None}]

\* Arguments of set_request_credentials drawn in SpecSeq: every pattern of
\* supplied and not supplied arguments, and the empty string for api_key.
AllArgs ==
    [api_key : {None, Some(""), Some("k1"), Some("k2")},
     provider : {None, Some("openai")},
     model : {None, Some("gpt-4o")},
     base_url : {None, Some("http://llm")},
     user_id : {None, Some("u1")},
     organization_id : {None, Some("org1")}]

FieldNames ==
    {"api_key", "provider", "model", "base_url", "user_id", "organization_id"}

(***************************************************************************)
(* State.                                                                  *)
(***************************************************************************)
VARIABLES
    context,    \* context[f]: the entry of _request_credentials in the
                \* Context that flow f runs in: <<>> when the Context holds
                \* no entry, <<v>> when it holds the value v (None or
                \* Some(bundle))
    ret,        \* the last completed call: its operation, flow, arguments
                \* and return value
    lastWrite,  \* history: lastWrite[f] is what the latest
                \* set_request_credentials / clear_request_credentials of
                \* flow f wrote: Some(arguments) or None (clear, or no write)
    prevSet,    \* history: the arguments of the set that the latest set of
                \* flow f directly followed, None when the latest write is
                \* not a set directly preceded by a set
    wrote,      \* history: wrote[f] iff flow f ever called
                \* set_request_credentials
    status,     \* status[f]: "new" (not started), "running" (on a thread),
                \* "suspended" (on no thread), "done" (finished or
                \* cancelled, its Context still held by the finished task)
                \* or "freed" (the task and its Context deallocated)
    current,    \* current[t]: the flow that runs on thread t, 0 when the
                \* thread is idle
    parent,     \* parent[f]: the flow that spawned f, 0 for a request flow
    ranOn,      \* history: ranOn[t] is the flow that last left thread t
    spawnedWith,\* history: what get returned in the spawner of f when it
                \* spawned f
    dirty,      \* history: dirty[f] iff f itself called set or clear
    bare,       \* bare[f] iff flow f is a job that runs in the Context of
                \* the worker thread it is on, not in a Context of its own
    threadContext, \* threadContext[t]: the entry of _request_credentials
                \* in the Context of worker thread t itself
    owner,      \* owner[f]: the flow for which the Context object that f
                \* runs in was created: f itself, unless the host gave f
                \* the Context object of another flow
    heap,       \* the RequestCredentials objects constructed so far, in the
                \* order of their construction: heap[i] is the record of the
                \* fields of object i
    boundObj,   \* boundObj[f]: the object bound in the Context of flow f,
                \* 0 when the variable holds None or no entry
    held        \* the reference the latest get returned (0 for None) and
                \* the fields the object had at that get

poolvars == <<bare, threadContext>>

rtvars == <<status, current, parent, ranOn, spawnedWith, dirty, poolvars, owner>>

heapvars == <<heap, boundObj, held>>

vars == <<context, ret, lastWrite, prevSet, wrote, rtvars, heapvars>>

(***************************************************************************)
(* RequestCredentials and the ContextVar.                                  *)
(***************************************************************************)

\* The mutant passes user_id and organization_id to each other's keyword.
RequestCredentialsSwapped(api_key, provider, model, base_url, user_id, organization_id) ==
    [api_key |-> api_key,
     provider |-> provider,
     model |-> model,
     base_url |-> base_url,
     user_id |-> organization_id,
     organization_id |-> user_id]

\* RequestCredentials(api_key=api_key, provider=provider, ...): the
\* dataclass constructor called by set_request_credentials.
RequestCredentials(api_key, provider, model, base_url, user_id, organization_id) ==
    [api_key |-> api_key,
     provider |-> provider,
     model |-> model,
     base_url |-> base_url,
     user_id |-> user_id,
     organization_id |-> organization_id]

\* The mutant makes an empty bundle the default.
DefaultEmptyBundle == Some(RequestCredentials(None, None, None, None, None, None))

\* ContextVar("request_credentials", default=None): the default.
Default == None

\* ContextVar.get() in the Context whose entry is c.
ContextVarGet(c) == IF c = <<>> THEN Default ELSE c[1]

\* The mutant keeps the value in one module-level global shared by all flows.
ContextVarSetGlobal(ctx, f, v) == [g \in DOMAIN ctx |-> <<v>>]

\* The mutant runs spawned work in the Context of its spawner, not in a
\* copy: a write of the spawned work is a write of the spawner too.
ContextVarSetShared(ctx, f, v) ==
    [g \in DOMAIN ctx |-> IF g = f \/ g = parent[f] THEN <<v>> ELSE ctx[g]]

\* ContextVar.set(v) called in flow f: only the Context that f runs in
\* changes, and with it the entry of every flow that runs in that same
\* Context object.
ContextVarSet(ctx, f, v) ==
    [g \in DOMAIN ctx |-> IF owner[g] = owner[f] THEN <<v>> ELSE ctx[g]]

\* Python truth value of an Optional[str]: None and "" are false.
Truthy(s) == s # None /\ s[1] # ""

Init ==
    /\ context = [f \in Flows |-> <<>>]
    /\ ret = [op |-> "init", flow |-> 0, args |-> None, result |-> None]
    /\ lastWrite = [f \in Flows |-> None]
    /\ prevSet = [f \in Flows |-> None]
    /\ wrote = [f \in Flows |-> FALSE]
    /\ status = [f \in Flows |-> "running"]
    /\ current = [t \in Threads |-> 0]
    /\ parent = [f \in Flows |-> 0]
    /\ ranOn = [t \in Threads |-> 0]
    /\ spawnedWith = [f \in Flows |-> None]
    /\ dirty = [f \in Flows |-> FALSE]
    /\ bare = [f \in Flows |-> FALSE]
    /\ threadContext = [t \in Threads |-> <<>>]
    /\ owner = [f \in Flows |-> f]
    /\ heap = <<>>
    /\ boundObj = [f \in Flows |-> 0]
    /\ held = [id |-> 0, snap |-> None]

(***************************************************************************)
(* Return values of the two reading functions, in a Context whose entry    *)
(* is c.                                                                   *)
(***************************************************************************)

\* The mutant gates the returned bundle on its api_key.
get_result_gated(c) ==
    IF ContextVarGet(c) # None /\ ContextVarGet(c)[1].api_key # None
    THEN ContextVarGet(c)
    ELSE None

\* return _request_credentials.get()
get_result(c) == ContextVarGet(c)

\* The mutant tests the presence of the bundle alone.
has_result_bundle_only(c) == ContextVarGet(c) # None

\* creds = _request_credentials.get()
\* return creds is not None and creds.api_key is not None
has_result(c) ==
    /\ ContextVarGet(c) # None
    /\ ContextVarGet(c)[1].api_key # None

\* The gate of the module docstring: `if creds and creds.api_key`.
\* An instance of the dataclass is true; None is false.
DocGate(creds) == creds # None /\ Truthy(creds[1].api_key)

(***************************************************************************)
(* The four operations, called in flow f.                                  *)
(***************************************************************************)

\* The mutant merges the new arguments into the bundle already bound.
set_request_credentials_merge(f, a) ==
    LET old == ContextVarGet(context[f])
        pick(n) == IF a[n] = None /\ old # None THEN old[1][n] ELSE a[n]
    IN  /\ context' = ContextVarSet(context, f,
                Some(RequestCredentials(pick("api_key"), pick("provider"),
                                        pick("model"), pick("base_url"),
                                        pick("user_id"), pick("organization_id"))))
        /\ ret' = [op |-> "set", flow |-> f, args |-> Some(a), result |-> None]
        /\ prevSet' = [prevSet EXCEPT ![f] = lastWrite[f]]
        /\ lastWrite' = [lastWrite EXCEPT ![f] = Some(a)]
        /\ wrote' = [wrote EXCEPT ![f] = TRUE]

set_request_credentials(f, a) ==
    /\ context' = ContextVarSet(context, f,
            Some(RequestCredentials(a.api_key, a.provider, a.model,
                                    a.base_url, a.user_id, a.organization_id)))
    /\ ret' = [op |-> "set", flow |-> f, args |-> Some(a), result |-> None]
    /\ prevSet' = [prevSet EXCEPT ![f] = lastWrite[f]]
    /\ lastWrite' = [lastWrite EXCEPT ![f] = Some(a)]
    /\ wrote' = [wrote EXCEPT ![f] = TRUE]

get_request_credentials(f) ==
    /\ ret' = [op |-> "get", flow |-> f, args |-> None,
               result |-> get_result(context[f])]
    /\ UNCHANGED <<context, lastWrite, prevSet, wrote>>

\* The mutant binds an empty bundle instead of None.
clear_request_credentials_empty(f) ==
    /\ context' = ContextVarSet(context, f,
            Some(RequestCredentials(None, None, None, None, None, None)))
    /\ ret' = [op |-> "clear", flow |-> f, args |-> None, result |-> None]
    /\ lastWrite' = [lastWrite EXCEPT ![f] = None]
    /\ prevSet' = [prevSet EXCEPT ![f] = None]
    /\ UNCHANGED wrote

\* The mutant resets the variable of every flow.
clear_request_credentials_all(f) ==
    /\ context' = [g \in Flows |-> <<None>>]
    /\ ret' = [op |-> "clear", flow |-> f, args |-> None, result |-> None]
    /\ lastWrite' = [lastWrite EXCEPT ![f] = None]
    /\ prevSet' = [prevSet EXCEPT ![f] = None]
    /\ UNCHANGED wrote

\* The mutant can clear only a flow whose Context holds an entry (as a
\* ContextVar.reset would need the token of an earlier set).
clear_request_credentials_reset(f) ==
    /\ context[f] # <<>>
    /\ context' = ContextVarSet(context, f, None)
    /\ ret' = [op |-> "clear", flow |-> f, args |-> None, result |-> None]
    /\ lastWrite' = [lastWrite EXCEPT ![f] = None]
    /\ prevSet' = [prevSet EXCEPT ![f] = None]
    /\ UNCHANGED wrote

clear_request_credentials(f) ==
    /\ context' = ContextVarSet(context, f, None)
    /\ ret' = [op |-> "clear", flow |-> f, args |-> None, result |-> None]
    /\ lastWrite' = [lastWrite EXCEPT ![f] = None]
    /\ prevSet' = [prevSet EXCEPT ![f] = None]
    /\ UNCHANGED wrote

has_request_credentials(f) ==
    /\ ret' = [op |-> "has", flow |-> f, args |-> None,
               result |-> has_result(context[f])]
    /\ UNCHANGED <<context, lastWrite, prevSet, wrote>>

(***************************************************************************)
(* Spec: NumFlows flows run concurrently; every step is one call of one    *)
(* flow, in any interleaving.  SpecSeq: one flow, every argument pattern.  *)
(* Both abstract from the host: every flow is a running request flow.      *)
(***************************************************************************)

Next ==
    /\ \E f \in Flows :
        \/ \E a \in TenantArgs(f) : set_request_credentials(f, a)
        \/ get_request_credentials(f)
        \/ clear_request_credentials(f)
        \/ has_request_credentials(f)
    /\ UNCHANGED <<rtvars, heapvars>>

Spec == Init /\ [][Next]_vars

NextSeq ==
    /\ \E f \in SeqFlows :
        \/ \E a \in AllArgs : set_request_credentials(f, a)
        \/ get_request_credentials(f)
        \/ clear_request_credentials(f)
        \/ has_request_credentials(f)
    /\ UNCHANGED <<rtvars, heapvars>>

SpecSeq == Init /\ [][NextSeq]_vars

(***************************************************************************)
(* The host.  The module is a library: the code that calls it decides in   *)
(* which contextvars.Context each flow runs.                               *)
(*                                                                         *)
(*  - A flow with a Context of its own: an asyncio task (the module        *)
(*    docstring places set_request_credentials in FastAPI middleware),     *)
(*    asyncio.to_thread or Context.run.  The task gets a copy of the       *)
(*    Context of the code that created it, and the thread that runs a step *)
(*    of the flow enters that Context.                                     *)
(*    A Context made on a worker thread (copy_context().run inside a job)  *)
(*    is a copy of the Context of that thread.  The host may also give     *)
(*    several tasks one and the same Context object                        *)
(*    (asyncio.create_task(coro, context=ctx)).                            *)
(*  - A bare job: a callable handed to a pool's worker thread as it is     *)
(*    (ThreadPoolExecutor.submit, loop.run_in_executor) or to a new        *)
(*    threading.Thread.  It runs in the Context of the thread itself,      *)
(*    which is empty when the thread is created and lives as long as the   *)
(*    thread: "an execution model that does not scope storage per logical  *)
(*    flow (only per physical thread)".                                    *)
(*                                                                         *)
(* context[f] is the entry that the code of flow f finds.  For a bare job  *)
(* it mirrors threadContext[t] while the job occupies thread t, and it is  *)
(* empty while the job is on no thread.                                    *)
(***************************************************************************)

\* Arguments of set_request_credentials drawn by flow f in the host
\* specifications.
RtArgs(f) == {a \in TenantArgs(f) : a.api_key # None /\ a.provider # None}

\* The Context of the host code that creates the request tasks, and of a
\* newly created thread: this module was never called in it, so it holds
\* no entry.
BaseContext == <<>>

\* The value that belongs to flow f by its own history: its latest write,
\* or, as long as it has written nothing, what its spawner read when it
\* spawned f.  The claims compare what get returns with it.
Expected(f) == IF dirty[f] THEN lastWrite[f] ELSE spawnedWith[f]

Live(f) == status[f] \in {"running", "suspended"}

\* Flows are numbered in the order of their creation: f is the next one.
NextToCreate(f) == status[f] = "new" /\ \A g \in Flows : g < f => status[g] # "new"

InitRt ==
    /\ context = [f \in Flows |-> <<>>]
    /\ ret = [op |-> "init", flow |-> 0, args |-> None, result |-> None]
    /\ lastWrite = [f \in Flows |-> None]
    /\ prevSet = [f \in Flows |-> None]
    /\ wrote = [f \in Flows |-> FALSE]
    /\ status = [f \in Flows |-> "new"]
    /\ current = [t \in Threads |-> 0]
    /\ parent = [f \in Flows |-> 0]
    /\ ranOn = [t \in Threads |-> 0]
    /\ spawnedWith = [f \in Flows |-> None]
    /\ dirty = [f \in Flows |-> FALSE]
    /\ bare = [f \in Flows |-> FALSE]
    /\ threadContext = [t \in Threads |-> BaseContext]
    /\ owner = [f \in Flows |-> f]
    /\ heap = <<>>
    /\ boundObj = [f \in Flows |-> 0]
    /\ held = [id |-> 0, snap |-> None]

\* The ways the host starts a request flow on a thread: "task", in a new
\* Context copied from the base Context (a task created by the server's
\* loop); "copy", in a new Context copied from the Context of the thread
\* (copy_context().run inside a job of the pool); "bare", in the Context
\* of the thread itself.
Modes == {"task", "copy", "bare"}

\* The entries of the flows once flow f has left its thread: a bare job
\* has no Context of its own.
Left(f) == IF bare[f] THEN [context EXCEPT ![f] = <<>>] ELSE context

\* Flow f may run now: no other flow is inside the Context object of f (a
\* Context cannot be entered twice).
Enterable(f) ==
    \A g \in Flows \ {f} : owner[g] = owner[f] => status[g] # "running"

\* The host starts request flow f on the idle thread t in mode m.
Start(f, t, m) ==
    /\ NextToCreate(f)
    /\ current[t] = 0
    /\ bare' = [bare EXCEPT ![f] = (m = "bare")]
    /\ context' = [context EXCEPT
                      ![f] = IF m = "task" THEN BaseContext
                                           ELSE threadContext[t]]
    /\ status' = [status EXCEPT ![f] = "running"]
    /\ current' = [current EXCEPT ![t] = f]
    /\ UNCHANGED <<ret, lastWrite, prevSet, wrote, parent, ranOn,
                   spawnedWith, dirty, threadContext, owner>>

\* The host creates request task f with the Context object it created
\* for flow g (asyncio.create_task(coro, context=ctx), with one ctx for
\* both): f waits to be scheduled.
StartShared(f, g) ==
    /\ NextToCreate(f)
    /\ status[g] \notin {"new", "freed"}
    /\ ~bare[g]
    /\ context' = [context EXCEPT ![f] = context[g]]
    /\ owner' = [owner EXCEPT ![f] = owner[g]]
    /\ status' = [status EXCEPT ![f] = "suspended"]
    /\ UNCHANGED <<ret, lastWrite, prevSet, wrote, current, parent, ranOn,
                   spawnedWith, dirty, poolvars>>

\* The flow running on thread t reaches an await, or the end of one of its
\* jobs, and leaves the thread.
Suspend(t) ==
    /\ current[t] # 0
    /\ context' = Left(current[t])
    /\ status' = [status EXCEPT ![current[t]] = "suspended"]
    /\ current' = [current EXCEPT ![t] = 0]
    /\ ranOn' = [ranOn EXCEPT ![t] = current[t]]
    /\ UNCHANGED <<ret, lastWrite, prevSet, wrote, parent, spawnedWith,
                   dirty, poolvars, owner>>

\* The suspended flow f continues on the idle thread t: the thread enters
\* the Context of f, or, for a bare job, f runs in the Context of t.
Resume(f, t) ==
    /\ status[f] = "suspended"
    /\ current[t] = 0
    /\ Enterable(f)
    /\ context' = [context EXCEPT
                      ![f] = IF bare[f] THEN threadContext[t] ELSE context[f]]
    /\ status' = [status EXCEPT ![f] = "running"]
    /\ current' = [current EXCEPT ![t] = f]
    /\ UNCHANGED <<ret, lastWrite, prevSet, wrote, parent, ranOn,
                   spawnedWith, dirty, poolvars, owner>>

\* The flow running on thread t spawns the task c (asyncio.create_task,
\* asyncio.to_thread), which gets a copy of the spawner's Context and
\* waits to be scheduled.
Spawn(t, c) ==
    /\ current[t] # 0
    /\ NextToCreate(c)
    /\ context' = [context EXCEPT ![c] = context[current[t]]]
    /\ parent' = [parent EXCEPT ![c] = current[t]]
    /\ status' = [status EXCEPT ![c] = "suspended"]
    /\ spawnedWith' = [spawnedWith EXCEPT
                          ![c] = get_result(context[current[t]])]
    /\ UNCHANGED <<ret, lastWrite, prevSet, wrote, current, ranOn, dirty,
                   poolvars, owner>>

\* The flow running on thread t creates the task c in the Context object
\* it runs in itself (asyncio.create_task(coro, context=ctx) with the ctx
\* the flow was given): c waits to be scheduled.
SpawnShared(t, c) ==
    /\ current[t] # 0
    /\ NextToCreate(c)
    /\ context' = [context EXCEPT ![c] = context[current[t]]]
    /\ owner' = [owner EXCEPT ![c] = owner[current[t]]]
    /\ parent' = [parent EXCEPT ![c] = current[t]]
    /\ status' = [status EXCEPT ![c] = "suspended"]
    /\ spawnedWith' = [spawnedWith EXCEPT
                          ![c] = get_result(context[current[t]])]
    /\ UNCHANGED <<ret, lastWrite, prevSet, wrote, current, ranOn, dirty,
                   poolvars>>

\* The flow running on thread t hands the job c to a worker thread
\* (loop.run_in_executor, ThreadPoolExecutor.submit, threading.Thread):
\* c is a bare job, which waits for a worker thread and receives nothing
\* of the spawner's Context.
SpawnWorker(t, c) ==
    /\ current[t] # 0
    /\ NextToCreate(c)
    /\ bare' = [bare EXCEPT ![c] = TRUE]
    /\ parent' = [parent EXCEPT ![c] = current[t]]
    /\ status' = [status EXCEPT ![c] = "suspended"]
    /\ spawnedWith' = [spawnedWith EXCEPT
                          ![c] = get_result(context[current[t]])]
    /\ UNCHANGED <<context, ret, lastWrite, prevSet, wrote, current, ranOn,
                   dirty, threadContext, owner>>

\* The flow running on thread t returns, whether or not it called clear.
Finish(t) ==
    /\ current[t] # 0
    /\ context' = Left(current[t])
    /\ status' = [status EXCEPT ![current[t]] = "done"]
    /\ current' = [current EXCEPT ![t] = 0]
    /\ ranOn' = [ranOn EXCEPT ![t] = current[t]]
    /\ UNCHANGED <<ret, lastWrite, prevSet, wrote, parent, spawnedWith,
                   dirty, poolvars, owner>>

\* The suspended flow f is cancelled or times out at its await.
Cancel(f) ==
    /\ status[f] = "suspended"
    /\ status' = [status EXCEPT ![f] = "done"]
    /\ UNCHANGED <<context, ret, lastWrite, prevSet, wrote, current, parent,
                   ranOn, spawnedWith, dirty, poolvars, owner>>

\* The host drops its last reference to the finished task of flow f, and
\* the runtime deallocates the task, and the Context object of the task
\* once no other task holds it.  The Context of a worker thread is not
\* part of it.  Nothing obliges the host to take this step.
Release(f) ==
    /\ status[f] = "done"
    /\ status' = [status EXCEPT ![f] = "freed"]
    /\ context' =
          IF \E g \in Flows \ {f} :
                 owner[g] = owner[f] /\ status[g] \notin {"new", "freed"}
          THEN context
          ELSE [g \in Flows |-> IF owner[g] = owner[f] THEN <<>>
                                                       ELSE context[g]]
    /\ UNCHANGED <<ret, lastWrite, prevSet, wrote, current, parent, ranOn,
                   spawnedWith, dirty, poolvars, owner>>

\* The Contexts of the threads after the flow on thread t has written:
\* the write of a bare job is a write to the Context of its thread.
Written(t) ==
    IF bare[current[t]]
    THEN [threadContext EXCEPT ![t] = context'[current[t]]]
    ELSE threadContext

\* The four operations, called by the flow running on thread t.
RtSet(t, a) ==
    /\ current[t] # 0
    /\ set_request_credentials(current[t], a)
    /\ dirty' = [dirty EXCEPT ![current[t]] = TRUE]
    /\ threadContext' = Written(t)
    /\ UNCHANGED <<status, current, parent, ranOn, spawnedWith, bare, owner>>

RtGet(t) ==
    /\ current[t] # 0
    /\ get_request_credentials(current[t])
    /\ UNCHANGED rtvars

RtClear(t) ==
    /\ current[t] # 0
    /\ clear_request_credentials(current[t])
    /\ dirty' = [dirty EXCEPT ![current[t]] = TRUE]
    /\ threadContext' = Written(t)
    /\ UNCHANGED <<status, current, parent, ranOn, spawnedWith, bare, owner>>

RtHas(t) ==
    /\ current[t] # 0
    /\ has_request_credentials(current[t])
    /\ UNCHANGED rtvars

\* The thread of the asyncio event loop.
LoopThreads == {1}

\* SpecThreads: a pool of worker threads.  Every request flow is started
\* as a bare job or in a Context of its own; flows leave their
\* thread and continue on any idle one, threads are reused for later
\* flows, flows finish or are cancelled, and the host may drop finished
\* tasks.
NextThreads ==
    /\ \/ \E f \in Flows, t \in Threads, m \in Modes : Start(f, t, m)
       \/ \E t \in Threads : Suspend(t)
       \/ \E f \in Flows, t \in Threads : Resume(f, t)
       \/ \E t \in Threads : Finish(t)
       \/ \E f \in Flows : Cancel(f)
       \/ \E f \in Flows : Release(f)
       \/ \E t \in Threads : \E a \in RtArgs(current[t]) : RtSet(t, a)
       \/ \E t \in Threads : RtGet(t)
       \/ \E t \in Threads : RtClear(t)
       \/ \E t \in Threads : RtHas(t)
    /\ UNCHANGED heapvars

SpecThreads == InitRt /\ [][NextThreads]_vars

\* Flow f may run on thread t of an event loop and its executor: a request
\* task and a task that shares its Context run on the loop's thread, a
\* spawned task with a Context of its own on the loop's thread
\* (asyncio.create_task) or on a worker thread (asyncio.to_thread), and a
\* bare job on a worker thread.  Only a task on the loop's thread reaches
\* an await: the job of a worker thread is a plain function, which runs to
\* its end.
RunsOn(f, t) ==
    IF bare[f]
    THEN t \notin LoopThreads
    ELSE t \in LoopThreads \/ (parent[f] # 0 /\ owner[f] = f)

\* SpecTasks: the tasks of one event loop.  The host creates request
\* tasks, each in a Context of its own or several in one Context object; a
\* flow spawns tasks, in a copy of its Context or in its Context itself;
\* tasks finish or are cancelled, and the host may drop finished tasks.
NextTasks ==
    /\ \/ \E f \in Flows, t \in LoopThreads : Start(f, t, "task")
       \/ \E f \in Flows, g \in Flows : StartShared(f, g)
       \/ \E t \in LoopThreads : Suspend(t)
       \/ \E f \in Flows, t \in Threads : RunsOn(f, t) /\ Resume(f, t)
       \/ \E t \in LoopThreads, c \in Flows : Spawn(t, c)
       \/ \E t \in LoopThreads, c \in Flows : SpawnShared(t, c)
       \/ \E t \in Threads : Finish(t)
       \/ \E f \in Flows : Cancel(f)
       \/ \E f \in Flows : Release(f)
       \/ \E t \in Threads : \E a \in RtArgs(current[t]) : RtSet(t, a)
       \/ \E t \in Threads : RtGet(t)
       \/ \E t \in Threads : RtClear(t)
       \/ \E t \in Threads : RtHas(t)
    /\ UNCHANGED heapvars

SpecTasks == InitRt /\ [][NextTasks]_vars

\* SpecCopies: the tasks of one event loop, all spawned work running in a
\* copy of its spawner's Context (asyncio.create_task on the loop's thread,
\* asyncio.to_thread on a worker thread).
NextCopies ==
    /\ \/ \E f \in Flows, t \in LoopThreads : Start(f, t, "task")
       \/ \E t \in LoopThreads : Suspend(t)
       \/ \E f \in Flows, t \in Threads : RunsOn(f, t) /\ Resume(f, t)
       \/ \E t \in LoopThreads, c \in Flows : Spawn(t, c)
       \/ \E t \in Threads : Finish(t)
       \/ \E t \in Threads : \E a \in RtArgs(current[t]) : RtSet(t, a)
       \/ \E t \in Threads : RtGet(t)
       \/ \E t \in Threads : RtClear(t)
    /\ UNCHANGED heapvars

SpecCopies == InitRt /\ [][NextCopies]_vars

\* SpecWorkers: the tasks of one event loop and the worker threads of its
\* executor.  A task spawns further tasks or hands bare jobs to the
\* executor.
NextWorkers ==
    /\ \/ \E f \in Flows, t \in LoopThreads : Start(f, t, "task")
       \/ \E f \in Flows, g \in Flows : StartShared(f, g)
       \/ \E t \in LoopThreads : Suspend(t)
       \/ \E f \in Flows, t \in Threads : RunsOn(f, t) /\ Resume(f, t)
       \/ \E t \in LoopThreads, c \in Flows : Spawn(t, c)
       \/ \E t \in LoopThreads, c \in Flows : SpawnShared(t, c)
       \/ \E t \in LoopThreads, c \in Flows : SpawnWorker(t, c)
       \/ \E t \in Threads : Finish(t)
       \/ \E t \in Threads : \E a \in RtArgs(current[t]) : RtSet(t, a)
       \/ \E t \in Threads : RtGet(t)
       \/ \E t \in Threads : RtClear(t)
       \/ \E t \in Threads : RtHas(t)
    /\ UNCHANGED heapvars

SpecWorkers == InitRt /\ [][NextWorkers]_vars

(***************************************************************************)
(* SpecHeap: the flows of Spec with the RequestCredentials objects kept    *)
(* by reference.  set_request_credentials constructs a new object and      *)
(* binds it; get_request_credentials returns a reference to the bound      *)
(* object.                                                                 *)
(***************************************************************************)

\* Number of RequestCredentials objects constructed in a run of SpecHeap.
MaxObjects == 3

\* Arguments of set_request_credentials drawn by flow f in SpecHeap.
HeapArgs(f) == {a \in TenantArgs(f) : a.api_key # None}

\* The mutant assigns the new field values to the object already bound.
HeapSetInPlace(f, a) ==
    /\ Len(heap) < MaxObjects
    /\ set_request_credentials(f, a)
    /\ IF boundObj[f] # 0
       THEN /\ heap' = [heap EXCEPT ![boundObj[f]] =
                           RequestCredentials(a.api_key, a.provider, a.model,
                               a.base_url, a.user_id, a.organization_id)]
            /\ UNCHANGED boundObj
       ELSE /\ heap' = Append(heap,
                           RequestCredentials(a.api_key, a.provider, a.model,
                               a.base_url, a.user_id, a.organization_id))
            /\ boundObj' = [boundObj EXCEPT ![f] = Len(heap) + 1]
    /\ UNCHANGED <<held, rtvars>>

\* creds = RequestCredentials(...); _request_credentials.set(creds)
HeapSet(f, a) ==
    /\ Len(heap) < MaxObjects
    /\ set_request_credentials(f, a)
    /\ heap' = Append(heap,
                    RequestCredentials(a.api_key, a.provider, a.model,
                                       a.base_url, a.user_id, a.organization_id))
    /\ boundObj' = [boundObj EXCEPT ![f] = Len(heap) + 1]
    /\ UNCHANGED <<held, rtvars>>

\* return _request_credentials.get(): a reference to the bound object.
HeapGet(f) ==
    /\ get_request_credentials(f)
    /\ held' = [id |-> boundObj[f],
                snap |-> IF boundObj[f] = 0 THEN None
                                            ELSE Some(heap[boundObj[f]])]
    /\ UNCHANGED <<heap, boundObj, rtvars>>

\* _request_credentials.set(None): the object that was bound stays as it is.
HeapClear(f) ==
    /\ clear_request_credentials(f)
    /\ boundObj' = [boundObj EXCEPT ![f] = 0]
    /\ UNCHANGED <<heap, held, rtvars>>

HeapHas(f) ==
    /\ has_request_credentials(f)
    /\ UNCHANGED <<heapvars, rtvars>>

NextHeap ==
    \E f \in Flows :
        \/ \E a \in HeapArgs(f) : HeapSet(f, a)
        \/ HeapGet(f)
        \/ HeapClear(f)
        \/ HeapHas(f)

SpecHeap == Init /\ [][NextHeap]_vars

(***************************************************************************)
(* Properties.                                                             *)
(***************************************************************************)

\* A get in flow f returned a bundle flow f itself set, or None.
C1_OwnBundle ==
    (ret.op = "get" /\ ret.result # None) =>
        /\ wrote[ret.flow]
        /\ ret.result[1].api_key \in {None, Some(TenantKey(ret.flow))}

\* A set in flow f leaves what get returns in every other flow unchanged.
C1_SetFrame ==
    \A f \in Flows :
        (\E a \in TenantArgs(f) : set_request_credentials(f, a)) =>
            \A g \in Flows \ {f} :
                get_result(context'[g]) = get_result(context[g])

\* C1: isolation.  In every interleaving of the set, get and clear calls of
\* concurrent flows, a get in a flow returns only a bundle that flow set
\* itself (or None), never the bundle of another flow, and a set in one
\* flow leaves the value every other flow's get returns unchanged.
C1_Isolation == []C1_OwnBundle /\ [][C1_SetFrame]_vars

\* Flow 1 read its own key back while flow 2 holds another tenant's key.
C1_Witness ==
    /\ ret.op = "get" /\ ret.flow = 1
    /\ ret.result # None /\ ret.result[1].api_key = Some(TenantKey(1))
    /\ get_result(context[2]) # None
    /\ get_result(context[2])[1].api_key = Some(TenantKey(2))

\* C2: an empty api_key counts as absent.  has_request_credentials returns
\* true iff a bundle is bound and its api_key is neither None nor empty,
\* which is the result of the documented gate `creds and creds.api_key`.
C2_EmptyKeyAbsent ==
    ret.op = "has" => ret.result = DocGate(get_result(context[ret.flow]))

\* C3: the presence gate is on api_key, not on the bundle.  After a set
\* with a non-empty api_key has_request_credentials returns true; after a
\* set without api_key it returns false, whatever the other five arguments
\* are, although get_request_credentials returns a bundle.
C3_PresenceGate ==
    (ret.op = "has" /\ lastWrite[ret.flow] # None) =>
        LET a == lastWrite[ret.flow][1] IN
        /\ Truthy(a.api_key) => ret.result = TRUE
        /\ a.api_key = None =>
              /\ ret.result = FALSE
              /\ get_result(context[ret.flow]) # None

\* has returned false after a set that supplied all arguments but api_key.
C3_Witness ==
    /\ ret.op = "has" /\ ret.result = FALSE
    /\ lastWrite[ret.flow] # None
    /\ \A n \in FieldNames :
          (lastWrite[ret.flow][1][n] = None) <=> (n = "api_key")

\* C4: default absence.  In a flow that never called
\* set_request_credentials, get returns None and has returns false,
\* whatever the other flows have done.
C4_DefaultAbsence ==
    /\ \A f \in Flows :
          ~wrote[f] => /\ get_result(context[f]) = None
                       /\ has_result(context[f]) = FALSE
    /\ (ret.op = "get" /\ ~wrote[ret.flow]) => ret.result = None
    /\ (ret.op = "has" /\ ~wrote[ret.flow]) => ret.result = FALSE

\* A fresh flow read None while another flow holds a bundle with a key.
C4_Witness ==
    /\ ret.op = "get" /\ ret.result = None
    /\ ~wrote[ret.flow]
    /\ \E g \in Flows \ {ret.flow} : has_result(context[g])

\* C5: clear resets to the initial state.  After sets followed by a clear,
\* get returns None and has returns false, and both reading functions
\* return what they return in a Context that never had the variable set.
C5_ClearResets ==
    /\ \A f \in Flows :
          (wrote[f] /\ lastWrite[f] = None) =>
              /\ get_result(context[f]) = None
              /\ has_result(context[f]) = FALSE
              /\ get_result(context[f]) = get_result(<<>>)
              /\ has_result(context[f]) = has_result(<<>>)
    /\ (ret.op = "get" /\ lastWrite[ret.flow] = None) => ret.result = None
    /\ (ret.op = "has" /\ lastWrite[ret.flow] = None) => ret.result = FALSE

\* A get returned None in a flow that had set a bundle and then cleared it.
C5_Witness ==
    /\ ret.op = "get" /\ ret.result = None
    /\ wrote[ret.flow] /\ lastWrite[ret.flow] = None

\* C6: overwrite without merge.  After two sets in a flow, get returns a
\* bundle whose six fields are the arguments of the second set; a field
\* the first set supplied and the second did not is None.
C6_Overwrite ==
    (ret.op = "get" /\ prevSet[ret.flow] # None) =>
        /\ ret.result # None
        /\ \A n \in FieldNames :
              /\ ret.result[1][n] = lastWrite[ret.flow][1][n]
              /\ (prevSet[ret.flow][1][n] # None
                    /\ lastWrite[ret.flow][1][n] = None)
                  => ret.result[1][n] = None

\* set(api_key="k1", provider="openai"), set(api_key="k2"), then get.
C6_Witness ==
    /\ ret.op = "get" /\ ret.result # None
    /\ prevSet[ret.flow] # None
    /\ prevSet[ret.flow][1].api_key = Some("k1")
    /\ prevSet[ret.flow][1].provider = Some("openai")
    /\ lastWrite[ret.flow][1].api_key = Some("k2")
    /\ lastWrite[ret.flow][1].provider = None
    /\ ret.result[1].api_key = Some("k2")
    /\ ret.result[1].provider = None

\* C7: read your writes.  At every point of a flow get returns what the
\* latest set or clear of that flow wrote: the bundle of the last set, or
\* None when the last write was a clear or there was none.
C7_ReadYourWrites ==
    /\ \A f \in Flows : get_result(context[f]) = lastWrite[f]
    /\ ret.op = "get" => ret.result = lastWrite[ret.flow]

\* Flow 1 read back its second set after flow 2 had written its own value.
C7_Witness ==
    /\ ret.op = "get" /\ ret.flow = 1
    /\ ret.result # None /\ ret.result = lastWrite[1]
    /\ prevSet[1] # None /\ prevSet[1] # lastWrite[1]
    /\ lastWrite[2] # None /\ lastWrite[2] # lastWrite[1]

\* One step: a get_request_credentials that directly follows a set of the
\* same flow returns the arguments of that set, field by field.
C8_RoundTripStep ==
    \A f \in Flows :
        (ret.op = "set" /\ ret.flow = f /\ get_request_credentials(f)) =>
            /\ ret'.result # None
            /\ \A n \in FieldNames : ret'.result[1][n] = ret.args[1][n]

\* C8: field round trip.  A get directly after a set in the same flow
\* returns a bundle whose six fields equal the six arguments one for one,
\* a field that was not supplied being None.
C8_RoundTrip == [][C8_RoundTripStep]_vars

\* A get returned the bundle of a set that supplied user_id and left
\* organization_id and base_url out.
C8_Witness ==
    /\ ret.op = "get" /\ ret.result # None
    /\ ret.result[1].api_key = Some("k1")
    /\ ret.result[1].provider = Some("openai")
    /\ ret.result[1].model = Some("gpt-4o")
    /\ ret.result[1].user_id = Some("u1")
    /\ ret.result[1].base_url = None
    /\ ret.result[1].organization_id = None
    /\ lastWrite[ret.flow] = ret.result

\* C9: totality.  In every reachable state each of the four operations can
\* be called in every flow with every argument, and the call that completed
\* returned a value of the function's return type.
C9_Totality ==
    /\ \A f \in Flows :
          /\ \A a \in AllArgs : ENABLED set_request_credentials(f, a)
          /\ ENABLED get_request_credentials(f)
          /\ ENABLED clear_request_credentials(f)
          /\ ENABLED has_request_credentials(f)
    /\ ret.op \in {"set", "clear"} => ret.result = None
    /\ ret.op = "has" => ret.result \in BOOLEAN
    /\ ret.op = "get" =>
          \/ ret.result = None
          \/ /\ Len(ret.result) = 1
             /\ DOMAIN ret.result[1] = FieldNames

\* A clear completed in a flow that never called set.
C9_Witness ==
    /\ ret.op = "clear"
    /\ ~wrote[ret.flow]
    /\ context[ret.flow] = <<None>>

\* One step: a clear in flow f changes neither the Context entry of another
\* flow nor what get and has return there.
C10_ClearFrameStep ==
    \A f \in Flows :
        clear_request_credentials(f) =>
            \A g \in Flows \ {f} :
                /\ context'[g] = context[g]
                /\ get_result(context'[g]) = get_result(context[g])
                /\ has_result(context'[g]) = has_result(context[g])

\* C10: clear is local.  A clear in flow f leaves the binding of every
\* other flow unchanged: get and has return there what they returned
\* before.
C10_ClearFrame == [][C10_ClearFrameStep]_vars

\* Flow 1 cleared a bundle it had set while flow 2 still holds its key.
C10_Witness ==
    /\ ret.op = "clear" /\ ret.flow = 1 /\ wrote[1]
    /\ has_result(context[2])
    /\ get_result(context[2])[1].api_key = Some(TenantKey(2))

\* Flow f is bound: get_request_credentials returns a bundle in it.
Bound(f) == get_result(context[f]) # None

\* Every slot is unbound or holds one bundle of six fields.
C15_Slots ==
    \A f \in Flows :
        \/ context[f] \in {<<>>, <<None>>}
        \/ /\ Len(context[f]) = 1
           /\ Len(context[f][1]) = 1
           /\ DOMAIN context[f][1][1] = FieldNames

\* set leads to bound, clear to unbound, get and has change no slot.
C15_Transitions ==
    \A f \in Flows :
        /\ (\E a \in TenantArgs(f) : set_request_credentials(f, a)) => Bound(f)'
        /\ clear_request_credentials(f) => ~Bound(f)'
        /\ get_request_credentials(f) => context' = context
        /\ has_request_credentials(f) => context' = context

\* C15: two states per flow.  Every flow's slot is unbound or holds exactly
\* one bundle; it starts unbound; set always leads to bound and clear to
\* unbound; get and has never change the slot of any flow.
C15_TwoStates ==
    /\ \A f \in Flows : ~Bound(f)
    /\ []C15_Slots
    /\ [][C15_Transitions]_vars

\* A flow that was bound has been cleared while another one is bound.
C15_Witness ==
    /\ ret.op = "clear" /\ wrote[ret.flow] /\ ~Bound(ret.flow)
    /\ \E g \in Flows : Bound(g)

\* Flow f runs on thread t after it last left another thread u.
Migrated(f, t, u) == f # 0 /\ current[t] = f /\ u # t /\ ranOn[u] = f

\* C11: the binding follows the flow, not the thread.  When a flow left a
\* worker thread and continues on another one, get in that flow returns
\* what the flow itself last wrote, and get in the flow that runs on the
\* original thread meanwhile returns what that flow last wrote: it neither
\* sees the bundle of the first flow nor has it changed it.
C11_FlowNotThread ==
    \A t \in Threads, u \in Threads :
        (Migrated(current[t], t, u) /\ ret.op = "get") =>
            /\ ret.flow = current[t] => ret.result = Expected(current[t])
            /\ (current[u] # 0 /\ ret.flow = current[u]) =>
                  ret.result = Expected(current[u])

\* C12: no stale credentials on reuse.  When a flow set a bundle and ended
\* without clear and its worker thread then runs a new flow, get returns
\* None and has returns false in the new flow until it calls set itself.
C12_NoStaleOnReuse ==
    \A t \in Threads :
        (/\ current[t] # 0
         /\ ~wrote[current[t]]
         /\ ranOn[t] \notin {0, current[t]}
         /\ status[ranOn[t]] \in {"done", "freed"}
         /\ lastWrite[ranOn[t]] # None
         /\ ret.flow = current[t]) =>
            /\ ret.op = "get" => ret.result = None
            /\ ret.op = "has" => ret.result = FALSE

\* The flows whose own Context holds a bundle, the worker threads whose
\* Context holds one, and the flows in progress.
Bindings == {f \in Flows : ~bare[f] /\ Bound(f)}

ThreadBindings == {t \in Threads : get_result(threadContext[t]) # None}

LiveFlows == {f \in Flows : Live(f)}

\* C13: slot release for abandoned flows.  The store holds no binding for
\* a flow whose scope has ended, cancelled or not, so that the number of
\* bindings held never exceeds the number of flows in progress.
C13_SlotRelease ==
    Cardinality(Bindings) + Cardinality(ThreadBindings)
        <= Cardinality(LiveFlows)

\* C16: visibility to spawned work.  When a flow called set and then
\* spawned work, a child task or a worker, get in that work returns the
\* bundle the flow had set, without receiving it as an argument, as long
\* as the spawned work writes nothing itself.
C16_SpawnedSees ==
    (/\ ret.op = "get"
     /\ parent[ret.flow] # 0
     /\ owner[ret.flow] = ret.flow
     /\ ~dirty[ret.flow]
     /\ spawnedWith[ret.flow] # None) =>
        ret.result = spawnedWith[ret.flow]

\* C17: clear covers the whole flow.  After the flow called clear, get
\* returns None in every unit of work of the flow, also in work it spawned
\* before the clear and that is still in progress.
C17_ClearCoversFlow ==
    \A c \in Flows :
        (/\ parent[c] # 0 /\ Live(c) /\ ~dirty[c]
         /\ dirty[parent[c]] /\ lastWrite[parent[c]] = None) =>
            get_result(context[c]) = None

\* A write in spawned work leaves what get returns in its spawner unchanged.
C18_SpawnedWriteStep ==
    \A t \in Threads :
        (/\ current[t] # 0
         /\ parent[current[t]] # 0
         /\ \/ \E a \in RtArgs(current[t]) : RtSet(t, a)
            \/ RtClear(t)) =>
            get_result(context'[parent[current[t]]])
                = get_result(context[parent[current[t]]])

\* Every flow in progress reads its own latest write, or what it was
\* spawned with, whatever the work it spawned has written.
C18_OwnWrites == \A f \in Flows : Live(f) => get_result(context[f]) = Expected(f)

\* C18: writes in spawned work do not propagate back.  A set or clear in
\* work spawned by a flow, which runs in a copy of the spawner's Context,
\* leaves the spawner's binding unchanged: the spawner's get returns the
\* same bundle before and after that write.
C18_NoWriteBack == []C18_OwnWrites /\ [][C18_SpawnedWriteStep]_vars

\* Spawned work wrote its own value while its spawner, still in progress,
\* holds the bundle it set itself.
C18_Witness ==
    /\ ret.op \in {"set", "clear"}
    /\ parent[ret.flow] # 0
    /\ Live(parent[ret.flow])
    /\ Bound(parent[ret.flow])
    /\ get_result(context[parent[ret.flow]]) = lastWrite[parent[ret.flow]]
    /\ get_result(context[parent[ret.flow]]) # get_result(context[ret.flow])

\* The object a Context holds has the fields get returns there by value.
C14_HeapAgrees ==
    \A f \in Flows :
        IF boundObj[f] = 0 THEN ~Bound(f)
        ELSE get_result(context[f]) = Some(heap[boundObj[f]])

\* The object the latest get returned still has the fields it had then.
C14_HeldUnchanged ==
    held.id # 0 => Some(heap[held.id]) = held.snap

\* No step changes a field of an object, and a set binds a new object.
C14_ObjectsStep ==
    /\ \A i \in DOMAIN heap : i \in DOMAIN heap' /\ heap'[i] = heap[i]
    /\ \A f \in Flows :
          (\E a \in HeapArgs(f) : HeapSet(f, a)) =>
              /\ boundObj'[f] \notin DOMAIN heap
              /\ boundObj'[f] \in DOMAIN heap'

\* C14: bundle immutability.  No field of a constructed bundle ever
\* changes; every set installs a newly constructed bundle, so a bundle
\* obtained from an earlier get keeps its field values after any later set
\* or clear in any flow.
C14_Immutable ==
    /\ []C14_HeapAgrees
    /\ []C14_HeldUnchanged
    /\ [][C14_ObjectsStep]_vars

\* The object a get returned is no longer bound in its flow, which set a
\* bundle with other field values since, and still has its fields.
C14_Witness ==
    /\ held.id # 0
    /\ ret.op = "set"
    /\ boundObj[ret.flow] # held.id
    /\ held.snap # None
    /\ held.snap[1].api_key = Some(TenantKey(ret.flow))
    /\ heap[boundObj[ret.flow]] # heap[held.id]
    /\ Some(heap[held.id]) = held.snap

====
